---- MODULE Spec2Model ----
(***************************************************************************)
(* Model of the underwater-drone water quality firmware                    *)
(* (src/drone_sketch.ino): the ADC averaging, the unit conversions, the    *)
(* threshold classifiers, and the setup()/loop() state machine with its    *)
(* two polled timers and the HTTP reporter.                                *)
(*                                                                         *)
(* Numbers.  The sketch computes in float; the model computes the same     *)
(* formulas exactly, on integers in fixed units chosen so that every       *)
(* value the formulas produce from an ADC code, and every threshold, is a  *)
(* whole number of units:                                                  *)
(*   voltage      1 unit = 1/VOLT_UNIT V    (3.3 V   = 90090 units)        *)
(*   pH           1 unit = 1/PH_UNIT        (14.0    = 180180 units)       *)
(*   turbidity    1 unit = 1/NTU_UNIT NTU   (1000.0  = 9009000 units)      *)
(*   temperature  1 unit = 1/SUHU_UNIT degC (the DS18B20's 1/16 degC step) *)
(* The emoji that end some of the sketch's category labels are left out of *)
(* the label strings.                                                      *)
(***************************************************************************)
EXTENDS Integers, Sequences, FiniteSets, TLC

\* ------------------------------------------------------------------------
\* Units of the fixed-point representation of the sketch's float values
\* ------------------------------------------------------------------------
VOLT_UNIT == 27300
PH_UNIT == 12870
NTU_UNIT == 9009
SUHU_UNIT == 16

\* ------------------------------------------------------------------------
\* Program constants
\* ------------------------------------------------------------------------
\* const int ADC_RESOLUTION = 4095
ADC_RESOLUTION == 4095
\* const float V_REF = 3.3, in voltage units (3.3 * VOLT_UNIT)
V_REF == 90090
\* const float PH_OFFSET = 0.0, in pH units
PH_OFFSET == 0
\* const float PH_SLOPE = 14.0 / V_REF, in pH units per voltage unit:
\* (14.0 * PH_UNIT) / (3.3 * VOLT_UNIT) = 180180 / 90090
PH_SLOPE == 2
\* const float NTU_MAX = 1000.0, in turbidity units (1000 * NTU_UNIT)
NTU_MAX == 9009000
\* const int JUMLAH_SAMPLING = 10
JUMLAH_SAMPLING == 10
\* const unsigned long SENSOR_READ_INTERVAL = 1000
SENSOR_READ_INTERVAL == 1000
\* const unsigned long DATA_SEND_INTERVAL = 5000
DATA_SEND_INTERVAL == 5000
\* DEVICE_DISCONNECTED_C, the probe's "not connected" reading of -127 degC,
\* in temperature units (-127 * SUHU_UNIT)
DEVICE_DISCONNECTED_C == -2032
\* the join loop of setup() gives up after this many polls
WIFI_TIMEOUT_MAX == 20
\* delay(1000) of setup() and delay(500) of its join loop, in ms
SETUP_DELAY == 1000
JOIN_DELAY == 500
\* HTTP_CODE_OK
HTTP_CODE_OK == 200
\* String(100.0): the hardcoded power level, formatted with two decimals
DAYA_LISTRIK == 10000

\* pH clamp limits 0.0 and 14.0 and turbidity clamp limits 0.0 and 1000.0
PH_MIN == 0
PH_MAX == 180180
NTU_MIN == 0
NTU_LIMIT == 9009000

\* ------------------------------------------------------------------------
\* Bounds of the model
\* ------------------------------------------------------------------------
\* milliseconds the model lets the clock advance while loop() runs
MaxElapsed == 6000

\* milliseconds left before the clock wraps around to 0, where a run that
\* has lasted close to 2^32 ms is taken up
WrapLead == 2296
\* how many leading reads of a mixed read sequence take the first level
MixAt == 3

\* ------------------------------------------------------------------------
\* Pure functions of the sketch
\* ------------------------------------------------------------------------
RECURSIVE TotalReads(_, _)
\* the accumulation loop of bacaADCRataRata: total += analogRead(pin), n times
TotalReads(reads, n) ==
    IF n = 0 THEN 0 ELSE TotalReads(reads, n - 1) + reads[n]

\* a buggy averaging that divides by one sample too few
bacaADCRataRata_OffByOne(reads) ==
    TotalReads(reads, JUMLAH_SAMPLING) \div (JUMLAH_SAMPLING - 1)

\* int bacaADCRataRata(int pin): truncated mean of JUMLAH_SAMPLING reads
bacaADCRataRata(reads) ==
    TotalReads(reads, JUMLAH_SAMPLING) \div JUMLAH_SAMPLING

\* truncating division toward zero, as the exact quotient is needed for
\* negative numerators too
DivTrunc(a, b) ==
    IF a >= 0 THEN a \div b ELSE -((-a) \div b)

\* float adcKeVoltage(int nilaiADC): nilaiADC * V_REF / ADC_RESOLUTION
\* (V_REF = 22 * ADC_RESOLUTION voltage units, so the quotient is exact)
adcKeVoltage(nilaiADC) ==
    DivTrunc(nilaiADC * V_REF, ADC_RESOLUTION)

\* a buggy pH conversion that forgets the upper clamp
konversiKePH_NoUpperClamp(tegangan) ==
    LET ph == (tegangan * PH_SLOPE) + PH_OFFSET
    IN  IF ph < PH_MIN THEN PH_MIN ELSE ph

\* float konversiKePH(float tegangan)
konversiKePH(tegangan) ==
    LET ph  == (tegangan * PH_SLOPE) + PH_OFFSET
        ph1 == IF ph < PH_MIN THEN PH_MIN ELSE ph
    IN  IF ph1 > PH_MAX THEN PH_MAX ELSE ph1

\* a buggy turbidity conversion that forgets the lower clamp
konversiKeNTU_NoLowerClamp(tegangan) ==
    LET ntu == (NTU_MAX \div V_REF) * (V_REF - tegangan)
    IN  IF ntu > NTU_LIMIT THEN NTU_LIMIT ELSE ntu

\* float konversiKeNTU(float tegangan): NTU_MAX * (1.0 - tegangan / V_REF),
\* computed as (NTU_MAX / V_REF) * (V_REF - tegangan); NTU_MAX / V_REF is
\* exactly 100 turbidity units per voltage unit
konversiKeNTU(tegangan) ==
    LET ntu  == (NTU_MAX \div V_REF) * (V_REF - tegangan)
        ntu1 == IF ntu < NTU_MIN THEN NTU_MIN ELSE ntu
    IN  IF ntu1 > NTU_LIMIT THEN NTU_LIMIT ELSE ntu1

\* a buggy pH classifier with the labels of two bands exchanged
kategoriPH_Swapped(ph) ==
    IF ph < 4 * PH_UNIT THEN "Sangat Asam"
    ELSE IF 2 * ph < 13 * PH_UNIT THEN "Basa"
    ELSE IF 2 * ph <= 17 * PH_UNIT THEN "Normal"
    ELSE IF ph <= 11 * PH_UNIT THEN "Asam"
    ELSE "Sangat Basa"

\* a pH classifier whose bands are all half-open [lo, hi)
kategoriPH_AllOpen(ph) ==
    IF ph < 4 * PH_UNIT THEN "Sangat Asam"
    ELSE IF 2 * ph < 13 * PH_UNIT THEN "Asam"
    ELSE IF 2 * ph < 17 * PH_UNIT THEN "Normal"
    ELSE IF ph < 11 * PH_UNIT THEN "Basa"
    ELSE "Sangat Basa"

\* String kategoriPH(float ph): thresholds 4.0, 6.5, 8.5, 11.0
kategoriPH(ph) ==
    IF ph < 4 * PH_UNIT THEN "Sangat Asam"
    ELSE IF 2 * ph < 13 * PH_UNIT THEN "Asam"
    ELSE IF 2 * ph <= 17 * PH_UNIT THEN "Normal"
    ELSE IF ph <= 11 * PH_UNIT THEN "Basa"
    ELSE "Sangat Basa"

\* a turbidity classifier that closes the 500 NTU band on its upper bound
kategoriTurbidity_Closed500(ntu) ==
    IF ntu < 5 * NTU_UNIT THEN "Jernih"
    ELSE IF ntu < 50 * NTU_UNIT THEN "Sedikit Keruh"
    ELSE IF ntu < 200 * NTU_UNIT THEN "Keruh"
    ELSE IF ntu <= 500 * NTU_UNIT THEN "Sangat Keruh"
    ELSE "Ekstrem Keruh"

\* String kategoriTurbidity(float ntu): thresholds 5, 50, 200, 500
kategoriTurbidity(ntu) ==
    IF ntu < 5 * NTU_UNIT THEN "Jernih"
    ELSE IF ntu < 50 * NTU_UNIT THEN "Sedikit Keruh"
    ELSE IF ntu < 200 * NTU_UNIT THEN "Keruh"
    ELSE IF ntu < 500 * NTU_UNIT THEN "Sangat Keruh"
    ELSE "Ekstrem Keruh"

\* String kategoriSuhu(float suhu): thresholds 0, 15, 25, 30, 40
kategoriSuhu(suhu) ==
    IF suhu < 0 * SUHU_UNIT THEN "Beku"
    ELSE IF suhu < 15 * SUHU_UNIT THEN "Dingin"
    ELSE IF suhu < 25 * SUHU_UNIT THEN "Sejuk"
    ELSE IF suhu < 30 * SUHU_UNIT THEN "Hangat"
    ELSE IF suhu < 40 * SUHU_UNIT THEN "Panas"
    ELSE "Sangat Panas"

\* String(value, digits): the decimal text of a float with `digits` decimals,
\* as the whole number of 10^-digits it shows (rounded half away from zero);
\* `unit` is the fixed-point unit of `value`, `pow` is 10^digits
StringFloat(value, unit, pow) ==
    LET mag == IF value >= 0 THEN value ELSE -value
        r   == ((2 * mag * pow) + unit) \div (2 * unit)
    IN  IF value >= 0 THEN r ELSE -r


\* ------------------------------------------------------------------------
\* unsigned long: 32-bit unsigned values as <<high 16 bits, low 16 bits>>
\* ------------------------------------------------------------------------
\* an unsigned long holding the small number n (n < 65536)
U32(n) == <<0, n>>

\* a + d modulo 2^32, d < 65536
U32Add(a, d) ==
    LET lo == a[2] + d
    IN  <<(a[1] + (lo \div 65536)) % 65536, lo % 65536>>

\* a - b modulo 2^32: unsigned subtraction wraps around
U32Sub(a, b) ==
    IF a[2] >= b[2]
    THEN <<(a[1] - b[1]) % 65536, a[2] - b[2]>>
    ELSE <<(a[1] - b[1] - 1) % 65536, (a[2] - b[2]) + 65536>>

\* x >= k for an unsigned long x and a small number k (k < 65536)
U32Geq(x, k) == x[1] > 0 \/ x[2] >= k

\* ------------------------------------------------------------------------
\* State
\* ------------------------------------------------------------------------
VARIABLES
    pc,                 \* position: "setup", "join", "millis", "sampler", "reporter"
    now,                \* the millisecond clock millis() reads
    elapsed,            \* milliseconds the clock has advanced under loop()
    currentMillis,      \* loop()'s captured time
    lastSensorRead,     \* sample timer
    lastDataSend,       \* send timer
    wifiTimeout,        \* setup()'s join poll counter
    adc,                \* what analogRead() returned last: the reads of
                        \* the pH pin and of the turbidity pin
    ds18b20,            \* what the temperature probe returned last
    rawPH, teganganPH, nilaiPH,
    rawTurbidity, teganganTurbidity, nilaiTurbidity,
    nilaiSuhu,
    display,            \* the table tampilkanDataSerial printed last
    serialLog,          \* the status line kirimDataKeServer printed last
                        \* (the other serial prints are left out)
    lastRequest,        \* the query of the request issued last, with the
                        \* captured time of the loop() iteration issuing it
    httpGets,           \* how many times the last run of kirimDataKeServer
                        \* called http.GET()
    sampleAt, sendAt,   \* history: the value of `elapsed` at the last sampling
                        \* tick and at the last send attempt (NoTick: none yet)
    fnOp, fnX, fnRes    \* a direct call of one function: name, argument, result

timers == <<lastSensorRead, lastDataSend>>
readings == <<rawPH, teganganPH, nilaiPH, rawTurbidity, teganganTurbidity,
              nilaiTurbidity, nilaiSuhu>>
clock == <<now, elapsed, currentMillis>>
http == <<lastRequest, httpGets>>
fn == <<fnOp, fnX, fnRes>>
sensors == <<adc, ds18b20>>
history == <<sampleAt, sendAt>>
vars == <<pc, clock, timers, wifiTimeout, sensors, readings, display, serialLog,
          http, history, fn>>

NoDisplay == [shown |-> FALSE]
NoRequest == [sent |-> FALSE]
NoTick == -1

\* ------------------------------------------------------------------------
\* Inputs of the model
\* ------------------------------------------------------------------------
\* levels analogRead() returns: the ends of the 12-bit range
AdcLevels == {0, ADC_RESOLUTION}

\* the JUMLAH_SAMPLING reads of one averaging: MixAt reads at one level, the
\* rest at another (a == b gives a steady signal)
ReadSeqs ==
    { [i \in 1..JUMLAH_SAMPLING |-> IF i <= MixAt THEN a ELSE b] :
        a \in AdcLevels, b \in AdcLevels }

\* readings of the temperature probe: disconnected, 25.0625 degC, -5.5 degC
SuhuProbe == {DEVICE_DISCONNECTED_C, (25 * SUHU_UNIT) + 1, -88}

\* what one sampling tick of loop() meets on its three sensors: the pH input,
\* the turbidity input, the probe
TickInputs ==
    { <<[i \in 1..JUMLAH_SAMPLING |-> 0],
        [i \in 1..JUMLAH_SAMPLING |-> ADC_RESOLUTION],
        DEVICE_DISCONNECTED_C>>,
      <<[i \in 1..JUMLAH_SAMPLING |-> IF i <= MixAt THEN 0 ELSE ADC_RESOLUTION],
        [i \in 1..JUMLAH_SAMPLING |-> IF i <= MixAt THEN ADC_RESOLUTION ELSE 0],
        (25 * SUHU_UNIT) + 1>>,
      <<[i \in 1..JUMLAH_SAMPLING |-> ADC_RESOLUTION],
        [i \in 1..JUMLAH_SAMPLING |-> 0],
        -88>> }

WifiStates == {"WL_CONNECTED", "WL_DISCONNECTED"}

\* what WiFi.status() may return at a poll of setup()'s join loop, `polls`
\* polls after WiFi.begin(): the network comes up at the first poll, after a
\* few polls, after enough polls for the send timer to expire, or never
JoinUpAt == {0, 3, 8}
JoinStatus(polls) ==
    IF polls \in JoinUpAt THEN WifiStates ELSE {"WL_DISCONNECTED"}

\* results of http.GET(): a transport error (negative), 200, a server error
HttpCodes == {-1, HTTP_CODE_OK, 500}

\* time that passes from one capture of millis() in loop() to the next
Delays == {0, JOIN_DELAY, SENSOR_READ_INTERVAL, 4 * SENSOR_READ_INTERVAL}

\* ------------------------------------------------------------------------
\* The sampler block of loop() and the serial table
\* ------------------------------------------------------------------------
\* void tampilkanDataSerial(): the values and categories of the table
tampilkanDataSerial(rPH, tPH, nPH, rNTU, tNTU, nNTU, nSuhu) ==
    [shown |-> TRUE,
     rawPH |-> rPH,
     teganganPH |-> StringFloat(tPH, VOLT_UNIT, 100),
     nilaiPH |-> StringFloat(nPH, PH_UNIT, 100),
     katPH |-> kategoriPH(nPH),
     rawTurbidity |-> rNTU,
     teganganTurbidity |-> StringFloat(tNTU, VOLT_UNIT, 100),
     nilaiTurbidity |-> StringFloat(nNTU, NTU_UNIT, 10),
     katNTU |-> kategoriTurbidity(nNTU),
     nilaiSuhu |-> StringFloat(nSuhu, SUHU_UNIT, 100),
     katSuhu |-> kategoriSuhu(nSuhu)]

\* a buggy probe check that keeps the sentinel as the reading
SuhuAtauDefault_Keep(suhu) == suhu

\* if (nilaiSuhu == DEVICE_DISCONNECTED_C) nilaiSuhu = 0.0
SuhuAtauDefault(suhu) ==
    IF suhu = DEVICE_DISCONNECTED_C THEN 0 ELSE suhu

\* the body of loop()'s sampler block after the timer reset: read and
\* convert both analog channels, read the probe, print the table
BacaSensor(readsPH, readsNTU, suhu) ==
    LET rPH  == bacaADCRataRata(readsPH)
        tPH  == adcKeVoltage(rPH)
        nPH  == konversiKePH(tPH)
        rNTU == bacaADCRataRata(readsNTU)
        tNTU == adcKeVoltage(rNTU)
        nNTU == konversiKeNTU(tNTU)
        nS   == SuhuAtauDefault(suhu)
    IN  /\ rawPH' = rPH
        /\ teganganPH' = tPH
        /\ nilaiPH' = nPH
        /\ rawTurbidity' = rNTU
        /\ teganganTurbidity' = tNTU
        /\ nilaiTurbidity' = nNTU
        /\ adc' = <<readsPH, readsNTU>>
        /\ ds18b20' = suhu
        /\ nilaiSuhu' = nS
        /\ display' = tampilkanDataSerial(rPH, tPH, nPH, rNTU, tNTU, nNTU, nS)


\* ------------------------------------------------------------------------
\* The reporter
\* ------------------------------------------------------------------------
\* the query string kirimDataKeServer builds from the reading globals
QueryString(nPH, nNTU, nSuhu) ==
    [sent |-> TRUE,
     at |-> currentMillis,
     kualitas_air |-> StringFloat(nPH, PH_UNIT, 100),
     tahan |-> StringFloat(nNTU, NTU_UNIT, 10),
     udara |-> StringFloat(nSuhu, SUHU_UNIT, 100),
     daya_listrik |-> DAYA_LISTRIK]

\* the status line kirimDataKeServer prints for a result of http.GET()
HttpLog(httpCode) ==
    IF httpCode > 0
    THEN IF httpCode = HTTP_CODE_OK THEN "Berhasil" ELSE "HTTP Code"
    ELSE "Gagal"

\* a buggy reporter that issues the request a second time when the first fails
kirimDataKeServer_Retry(status, httpCode) ==
    /\ IF status = "WL_CONNECTED"
       THEN /\ lastRequest' = QueryString(nilaiPH, nilaiTurbidity, nilaiSuhu)
            /\ httpGets' = IF httpCode = HTTP_CODE_OK THEN 1 ELSE 2
            /\ serialLog' = HttpLog(httpCode)
       ELSE /\ UNCHANGED lastRequest
            /\ httpGets' = 0
            /\ serialLog' = "WiFi terputus"

\* void kirimDataKeServer(): `status` is what WiFi.status() returns and
\* `httpCode` what http.GET() returns
kirimDataKeServer(status, httpCode) ==
    /\ IF status = "WL_CONNECTED"
       THEN /\ lastRequest' = QueryString(nilaiPH, nilaiTurbidity, nilaiSuhu)
            /\ httpGets' = 1
            /\ serialLog' = HttpLog(httpCode)
       ELSE /\ UNCHANGED lastRequest
            /\ httpGets' = 0
            /\ serialLog' = "WiFi terputus"

\* ------------------------------------------------------------------------
\* setup()
\* ------------------------------------------------------------------------
\* setup() up to WiFi.begin(): serial, delay(1000), ADC, probe, join request
Setup ==
    /\ pc = "setup"
    /\ now' = U32Add(now, SETUP_DELAY)
    /\ wifiTimeout' = 0
    /\ pc' = "join"
    /\ UNCHANGED <<elapsed, currentMillis, timers, sensors, readings,
                   display, serialLog, http, history, fn>>

\* the condition of setup()'s join loop
JoinMenunggu(status, timeout) ==
    status # "WL_CONNECTED" /\ timeout < WIFI_TIMEOUT_MAX

\* one turn of the join loop: not connected yet, wait and count
JoinWait ==
    /\ pc = "join"
    /\ \E status \in JoinStatus(wifiTimeout) :
          JoinMenunggu(status, wifiTimeout)
    /\ now' = U32Add(now, JOIN_DELAY)
    /\ wifiTimeout' = wifiTimeout + 1
    /\ UNCHANGED <<pc, elapsed, currentMillis, timers, sensors, readings, display,
                   serialLog, http, history, fn>>

\* a setup() that stops for good when the join has failed
SetupSelesai_HaltOffline(status) ==
    IF status = "WL_CONNECTED" THEN "millis" ELSE "halt"

\* where setup() goes once the join loop has ended, with the status it reads
\* then: it returns, connected or not, and loop() starts
SetupSelesai(status) == "millis"

\* the join loop ends (connected, or out of polls); setup() reads the
\* status once more and returns
JoinDone ==
    /\ pc = "join"
    /\ \E status \in JoinStatus(wifiTimeout) :
          ~JoinMenunggu(status, wifiTimeout)
    /\ \E status \in WifiStates : pc' = SetupSelesai(status)
    /\ UNCHANGED <<clock, timers, wifiTimeout, sensors, readings, display,
                   serialLog, http, history, fn>>

\* ------------------------------------------------------------------------
\* loop()
\* ------------------------------------------------------------------------
\* an order of loop()'s blocks that reports before it samples
Berikutnya_ReporterFirst(p) ==
    CASE p = "millis" -> "reporter"
      [] p = "reporter" -> "sampler"
      [] OTHER -> "millis"

\* the order of loop()'s blocks: capture the time, sampler, reporter
Berikutnya(p) ==
    CASE p = "millis" -> "sampler"
      [] p = "sampler" -> "reporter"
      [] OTHER -> "millis"

\* a timer test that adds instead of subtracting: the sum wraps around
\* before the clock does
TimerDue_AddInterval(current, last, interval) ==
    LET due == U32Add(last, interval)
    IN  current[1] > due[1] \/ (current[1] = due[1] /\ current[2] >= due[2])

\* currentMillis - last >= interval, in unsigned arithmetic
TimerDue(current, last, interval) ==
    U32Geq(U32Sub(current, last), interval)

\* unsigned long currentMillis = millis()
LoopMillis ==
    /\ pc = "millis"
    /\ \E d \in Delays :
          /\ elapsed + d <= MaxElapsed
          /\ now' = U32Add(now, d)
          /\ elapsed' = elapsed + d
    /\ currentMillis' = now'
    /\ pc' = Berikutnya(pc)
    /\ UNCHANGED <<timers, wifiTimeout, sensors, readings, display, serialLog,
                   http, history, fn>>

\* the sampler block, its timer due
SamplerTick ==
    /\ pc = "sampler"
    /\ TimerDue(currentMillis, lastSensorRead, SENSOR_READ_INTERVAL)
    /\ lastSensorRead' = currentMillis
    /\ \E in \in TickInputs : BacaSensor(in[1], in[2], in[3])
    /\ pc' = Berikutnya(pc)
    /\ sampleAt' = elapsed
    /\ UNCHANGED <<clock, lastDataSend, wifiTimeout, serialLog, http, sendAt, fn>>

\* the sampler block, its timer not due
SamplerIdle ==
    /\ pc = "sampler"
    /\ ~TimerDue(currentMillis, lastSensorRead, SENSOR_READ_INTERVAL)
    /\ pc' = Berikutnya(pc)
    /\ UNCHANGED <<clock, timers, wifiTimeout, sensors, readings, display,
                   serialLog, http, history, fn>>

\* the reporter block, its timer due
ReporterSend ==
    /\ pc = "reporter"
    /\ TimerDue(currentMillis, lastDataSend, DATA_SEND_INTERVAL)
    /\ lastDataSend' = currentMillis
    /\ \E status \in WifiStates, httpCode \in HttpCodes :
          kirimDataKeServer(status, httpCode)
    /\ pc' = Berikutnya(pc)
    /\ sendAt' = elapsed
    /\ UNCHANGED <<clock, lastSensorRead, wifiTimeout, sensors, readings,
                   display, sampleAt, fn>>

\* the reporter block, its timer not due
ReporterIdle ==
    /\ pc = "reporter"
    /\ ~TimerDue(currentMillis, lastDataSend, DATA_SEND_INTERVAL)
    /\ pc' = Berikutnya(pc)
    /\ UNCHANGED <<clock, timers, wifiTimeout, sensors, readings, display,
                   serialLog, http, history, fn>>

\* ------------------------------------------------------------------------
\* The firmware: power-on state, then setup(), then loop() forever
\* ------------------------------------------------------------------------
\* the globals as their initialisers leave them, before setup() runs
PowerOn ==
    /\ pc = "setup"
    /\ now = U32(0)
    /\ elapsed = 0
    /\ currentMillis = U32(0)
    /\ lastSensorRead = U32(0)
    /\ lastDataSend = U32(0)
    /\ wifiTimeout = 0
    /\ adc = <<<<>>, <<>>>>
    /\ ds18b20 = 0
    /\ rawPH = 0
    /\ teganganPH = 0
    /\ nilaiPH = 0
    /\ rawTurbidity = 0
    /\ teganganTurbidity = 0
    /\ nilaiTurbidity = 0
    /\ nilaiSuhu = 0
    /\ display = NoDisplay
    /\ serialLog = ""
    /\ lastRequest = NoRequest
    /\ httpGets = 0
    /\ sampleAt = NoTick
    /\ sendAt = NoTick

Init ==
    /\ PowerOn
    /\ fnOp = "none"
    /\ fnX = 0
    /\ fnRes = 0

Next ==
    \/ Setup
    \/ JoinWait
    \/ JoinDone
    \/ LoopMillis
    \/ SamplerTick
    \/ SamplerIdle
    \/ ReporterSend
    \/ ReporterIdle

Spec == Init /\ [][Next]_vars

\* the same, the processor never stopping
LiveSpec == Spec /\ WF_vars(Next)

\* the value of millis() WrapLead ms before it wraps around
WrapStart == U32Sub(U32(0), U32(WrapLead))

\* a node that has run offline for close to 2^32 ms: the loop() iteration
\* that captured WrapStart has just ended, both blocks having run in it (the
\* probe disconnected, no network at the join nor at any send)
NearWrap ==
    /\ pc = "millis"
    /\ now = WrapStart
    /\ elapsed = 0
    /\ currentMillis = WrapStart
    /\ lastSensorRead = WrapStart
    /\ lastDataSend = WrapStart
    /\ wifiTimeout = WIFI_TIMEOUT_MAX
    /\ \E in \in TickInputs :
          /\ in[3] = DEVICE_DISCONNECTED_C
          /\ adc = <<in[1], in[2]>>
          /\ ds18b20 = in[3]
          /\ rawPH = bacaADCRataRata(in[1])
          /\ rawTurbidity = bacaADCRataRata(in[2])
          /\ nilaiSuhu = SuhuAtauDefault(in[3])
    /\ teganganPH = adcKeVoltage(rawPH)
    /\ nilaiPH = konversiKePH(teganganPH)
    /\ teganganTurbidity = adcKeVoltage(rawTurbidity)
    /\ nilaiTurbidity = konversiKeNTU(teganganTurbidity)
    /\ display = tampilkanDataSerial(rawPH, teganganPH, nilaiPH, rawTurbidity,
                                     teganganTurbidity, nilaiTurbidity, nilaiSuhu)
    /\ serialLog = "WiFi terputus"
    /\ lastRequest = NoRequest
    /\ httpGets = 0
    /\ sampleAt = 0
    /\ sendAt = 0
    /\ fnOp = "none"
    /\ fnX = 0
    /\ fnRes = 0

\* the firmware from power-on, and from shortly before the clock wraps
WrapInit == Init \/ NearWrap

WrapSpec == WrapInit /\ [][Next]_vars


\* ------------------------------------------------------------------------
\* The functions called directly: the argument is drawn at the start, each
\* action calls one function on it and keeps the result
\* ------------------------------------------------------------------------
\* ADC codes: the range's ends and middle, the codes that convert to exactly
\* pH 4.0 (1170) and 200 NTU (3276), and codes outside the 12-bit range
AdcInputs == {-1, 0, 1, 2, 1170, 2047, 2048, 3276, 4094, ADC_RESOLUTION,
              ADC_RESOLUTION + 1}

\* voltages: -1 V, just below 0, 0, one ADC step, 1.65 V and its neighbours,
\* just below V_REF, V_REF, just above it, 5 V
VoltInputs == {-VOLT_UNIT, -1, 0, 1, 22, 45044, 45045, 45046, V_REF - 22,
               V_REF - 1, V_REF, V_REF + 1, 5 * VOLT_UNIT}

\* every threshold of a classifier with its two neighbours
Around(batas) ==
    UNION { {batas[i] - 1, batas[i], batas[i] + 1} : i \in DOMAIN batas }

\* the thresholds the three classifiers compare with
PHBatas == <<4 * PH_UNIT, (13 * PH_UNIT) \div 2, (17 * PH_UNIT) \div 2,
             11 * PH_UNIT>>
NTUBatas == <<5 * NTU_UNIT, 50 * NTU_UNIT, 200 * NTU_UNIT, 500 * NTU_UNIT>>
SuhuBatas == <<0, 15 * SUHU_UNIT, 25 * SUHU_UNIT, 30 * SUHU_UNIT,
               40 * SUHU_UNIT>>

PHInputs == Around(PHBatas) \cup {-PH_UNIT, 0, 7 * PH_UNIT, PH_MAX, 20 * PH_UNIT}
NTUInputs == Around(NTUBatas) \cup {-NTU_UNIT, 0, NTU_LIMIT, 2 * NTU_LIMIT}
SuhuInputs == Around(SuhuBatas)
              \cup {DEVICE_DISCONNECTED_C, -55 * SUHU_UNIT, 125 * SUHU_UNIT}

FnInputs == AdcInputs \cup VoltInputs \cup PHInputs \cup NTUInputs \cup SuhuInputs

FnInit ==
    /\ PowerOn
    /\ fnOp = "none"
    /\ fnX \in FnInputs
    /\ fnRes = 0

machine == <<pc, clock, timers, wifiTimeout, sensors, readings, display,
             serialLog, http, history>>

CallAdcKeVoltage ==
    /\ fnX \in AdcInputs
    /\ fnOp' = "adcKeVoltage"
    /\ fnRes' = adcKeVoltage(fnX)
    /\ UNCHANGED <<fnX, machine>>

CallKonversiKePH ==
    /\ fnX \in VoltInputs
    /\ fnOp' = "konversiKePH"
    /\ fnRes' = konversiKePH(fnX)
    /\ UNCHANGED <<fnX, machine>>

CallKonversiKeNTU ==
    /\ fnX \in VoltInputs
    /\ fnOp' = "konversiKeNTU"
    /\ fnRes' = konversiKeNTU(fnX)
    /\ UNCHANGED <<fnX, machine>>

CallKategoriPH ==
    /\ fnX \in PHInputs
    /\ fnOp' = "kategoriPH"
    /\ fnRes' = kategoriPH(fnX)
    /\ UNCHANGED <<fnX, machine>>

CallKategoriTurbidity ==
    /\ fnX \in NTUInputs
    /\ fnOp' = "kategoriTurbidity"
    /\ fnRes' = kategoriTurbidity(fnX)
    /\ UNCHANGED <<fnX, machine>>

CallKategoriSuhu ==
    /\ fnX \in SuhuInputs
    /\ fnOp' = "kategoriSuhu"
    /\ fnRes' = kategoriSuhu(fnX)
    /\ UNCHANGED <<fnX, machine>>

\* the sampler block's reads, conversions and table, on any of the inputs
CallBacaSensor ==
    /\ \E readsPH \in ReadSeqs, readsNTU \in ReadSeqs, suhu \in SuhuProbe :
          BacaSensor(readsPH, readsNTU, suhu)
    /\ UNCHANGED <<pc, clock, timers, wifiTimeout, serialLog, http, history, fn>>

FnNext ==
    \/ CallAdcKeVoltage
    \/ CallKonversiKePH
    \/ CallKonversiKeNTU
    \/ CallKategoriPH
    \/ CallKategoriTurbidity
    \/ CallKategoriSuhu
    \/ CallBacaSensor

FnSpec == FnInit /\ [][FnNext]_vars


\* ------------------------------------------------------------------------
\* Bands, as the specification describes them
\* ------------------------------------------------------------------------
PHLabels == <<"Sangat Asam", "Asam", "Normal", "Basa", "Sangat Basa">>
NTULabels == <<"Jernih", "Sedikit Keruh", "Keruh", "Sangat Keruh",
               "Ekstrem Keruh">>
SuhuLabels == <<"Beku", "Dingin", "Sejuk", "Hangat", "Panas", "Sangat Panas">>

\* the place of a label in its ordered list (0 when it is not one of them)
Rank(labels, lab) ==
    IF \E i \in DOMAIN labels : labels[i] = lab
    THEN CHOOSE i \in DOMAIN labels : labels[i] = lab
    ELSE 0

\* the band of x: one more than the number of thresholds x has passed, where a
\* threshold that closes its band from above is passed only by larger values
Band(x, batas, tertutup) ==
    1 + Cardinality({ i \in DOMAIN batas :
                        x > batas[i] \/ (x = batas[i] /\ ~tertutup[i]) })

\* ------------------------------------------------------------------------
\* C1.  Every classifier maps every input - below the lowest threshold, on a
\* threshold, above the highest - to one label of its list, and a larger
\* input never maps to a lower band.
\* ------------------------------------------------------------------------
C1_BandsExhaustiveOrdered ==
    /\ fnOp = "kategoriPH" =>
          /\ Rank(PHLabels, fnRes) \in 1..Len(PHLabels)
          /\ \A y \in PHInputs :
                y >= fnX => Rank(PHLabels, kategoriPH(y)) >= Rank(PHLabels, fnRes)
    /\ fnOp = "kategoriTurbidity" =>
          /\ Rank(NTULabels, fnRes) \in 1..Len(NTULabels)
          /\ \A y \in NTUInputs :
                y >= fnX => Rank(NTULabels, kategoriTurbidity(y))
                               >= Rank(NTULabels, fnRes)
    /\ fnOp = "kategoriSuhu" =>
          /\ Rank(SuhuLabels, fnRes) \in 1..Len(SuhuLabels)
          /\ \A y \in SuhuInputs :
                y >= fnX => Rank(SuhuLabels, kategoriSuhu(y))
                               >= Rank(SuhuLabels, fnRes)

\* pH 6.5, exactly on a threshold, has been classified
C1_Witness ==
    /\ fnOp = "kategoriPH"
    /\ 2 * fnX = 13 * PH_UNIT
    /\ fnRes = "Normal"

\* ------------------------------------------------------------------------
\* C2 as written.  In each classifier a value exactly on a threshold is put
\* in the band below the threshold (every band but the last is closed on its
\* upper bound).
\* ------------------------------------------------------------------------
C2_AllClosedAbove ==
    /\ fnOp = "kategoriPH" =>
          fnRes = PHLabels[Band(fnX, PHBatas, <<TRUE, TRUE, TRUE, TRUE>>)]
    /\ fnOp = "kategoriTurbidity" =>
          fnRes = NTULabels[Band(fnX, NTUBatas, <<TRUE, TRUE, TRUE, TRUE>>)]
    /\ fnOp = "kategoriSuhu" =>
          fnRes = SuhuLabels[Band(fnX, SuhuBatas,
                                  <<TRUE, TRUE, TRUE, TRUE, TRUE>>)]

\* ------------------------------------------------------------------------
\* C2, amended.  Only pH 8.5 and pH 11.0 close their band from above (8.5 is
\* "Normal", 11.0 is "Basa").  pH 4.0 and 6.5, every turbidity threshold
\* (5, 50, 200, 500) and every temperature threshold (0, 15, 25, 30, 40)
\* belong to the band above them.  The last band has no upper bound.
\* ------------------------------------------------------------------------
C2_ClosedAboveOnlyPH85And11 ==
    /\ fnOp = "kategoriPH" =>
          fnRes = PHLabels[Band(fnX, PHBatas, <<FALSE, FALSE, TRUE, TRUE>>)]
    /\ fnOp = "kategoriTurbidity" =>
          fnRes = NTULabels[Band(fnX, NTUBatas,
                                 <<FALSE, FALSE, FALSE, FALSE>>)]
    /\ fnOp = "kategoriSuhu" =>
          fnRes = SuhuLabels[Band(fnX, SuhuBatas,
                                  <<FALSE, FALSE, FALSE, FALSE, FALSE>>)]

\* pH 8.5, on a threshold that closes its band, has been classified
C2_Witness ==
    /\ fnOp = "kategoriPH"
    /\ fnX = PHBatas[3]
    /\ fnRes = "Normal"

\* ------------------------------------------------------------------------
\* C3 as written.  1.65 V converts to pH 7.0, a "Normal" pH, and to 500 NTU,
\* a "Sangat Keruh" turbidity.
\* ------------------------------------------------------------------------
C3_HalfScaleVeryTurbid ==
    /\ (fnOp = "konversiKePH" /\ 2 * fnX = V_REF) =>
          /\ fnRes = 7 * PH_UNIT
          /\ kategoriPH(fnRes) = "Normal"
    /\ (fnOp = "konversiKeNTU" /\ 2 * fnX = V_REF) =>
          /\ fnRes = 500 * NTU_UNIT
          /\ kategoriTurbidity(fnRes) = "Sangat Keruh"

\* ------------------------------------------------------------------------
\* C3, amended.  1.65 V converts to pH 7.0, a "Normal" pH, and to 500 NTU,
\* which kategoriTurbidity puts in the extreme band, "Ekstrem Keruh": the
\* "Sangat Keruh" band ends below 500.
\* ------------------------------------------------------------------------
C3_HalfScaleExtreme ==
    /\ (fnOp = "konversiKePH" /\ 2 * fnX = V_REF) =>
          /\ fnRes = 7 * PH_UNIT
          /\ kategoriPH(fnRes) = "Normal"
    /\ (fnOp = "konversiKeNTU" /\ 2 * fnX = V_REF) =>
          /\ fnRes = 500 * NTU_UNIT
          /\ kategoriTurbidity(fnRes) = "Ekstrem Keruh"

\* 1.65 V has been converted to turbidity
C3_Witness ==
    /\ fnOp = "konversiKeNTU"
    /\ 2 * fnX = V_REF
    /\ fnRes = 500 * NTU_UNIT

\* ------------------------------------------------------------------------
\* C4.  konversiKeNTU returns a value in [0, 1000] for every voltage, also
\* below 0 and above 3.3; it returns 0 at 3.3 V and 1000 at 0 V; a larger
\* voltage never gives a larger turbidity.
\* ------------------------------------------------------------------------
C4_NTUClampedInverse ==
    fnOp = "konversiKeNTU" =>
       /\ NTU_MIN <= fnRes /\ fnRes <= 1000 * NTU_UNIT
       /\ fnX = V_REF => fnRes = 0
       /\ fnX = 0 => fnRes = 1000 * NTU_UNIT
       /\ \A y \in VoltInputs : y >= fnX => konversiKeNTU(y) <= fnRes

\* a voltage above V_REF has been converted, and clamped to 0
C4_Witness ==
    /\ fnOp = "konversiKeNTU"
    /\ fnX > V_REF
    /\ fnRes = 0

\* ------------------------------------------------------------------------
\* C5.  konversiKePH returns voltage * slope + offset limited to [0, 14] for
\* every voltage, also below 0 and above 3.3, and the nilaiPH the sampler
\* stores is in [0, 14] after any number of its runs.
\* ------------------------------------------------------------------------
C5_PHClamped ==
    /\ fnOp = "konversiKePH" =>
          LET linear == fnX * ((14 * PH_UNIT) \div ((33 * VOLT_UNIT) \div 10))
          IN  /\ 0 <= fnRes /\ fnRes <= 14 * PH_UNIT
              /\ fnRes = IF linear < 0 THEN 0
                         ELSE IF linear > 14 * PH_UNIT THEN 14 * PH_UNIT
                         ELSE linear
    /\ 0 <= nilaiPH /\ nilaiPH <= 14 * PH_UNIT

\* a voltage above V_REF has been converted and clamped to 14, and the
\* sampler has stored the pH of a full-scale reading
C5_Witness ==
    /\ fnOp = "konversiKePH"
    /\ fnX > V_REF
    /\ fnRes = 14 * PH_UNIT
    /\ display.shown
    /\ rawPH = ADC_RESOLUTION
    /\ nilaiPH = 14 * PH_UNIT

\* ------------------------------------------------------------------------
\* C6.  For raw codes 0..4095 adcKeVoltage is within [0, 3.3], 0 at code 0 and
\* 3.3 at code 4095, and never decreases as the code grows; the raw codes the
\* sampler stores are truncated means of its reads, so they stay in 0..4095
\* and the stored voltages in [0, 3.3], after any number of its runs.
\* ------------------------------------------------------------------------
C6_VoltageMonotoneBounded ==
    /\ (fnOp = "adcKeVoltage" /\ fnX \in 0..4095) =>
          /\ 0 <= fnRes /\ fnRes <= (33 * VOLT_UNIT) \div 10
          /\ fnX = 0 => fnRes = 0
          /\ fnX = 4095 => fnRes = (33 * VOLT_UNIT) \div 10
          /\ \A y \in AdcInputs \cap 0..4095 :
                y >= fnX => adcKeVoltage(y) >= fnRes
    /\ rawPH \in 0..4095 /\ rawTurbidity \in 0..4095
    /\ 0 <= teganganPH /\ teganganPH <= (33 * VOLT_UNIT) \div 10
    /\ 0 <= teganganTurbidity /\ teganganTurbidity <= (33 * VOLT_UNIT) \div 10
    /\ display.shown =>
          \A ch \in 1..2 :
             LET raw == <<rawPH, rawTurbidity>>[ch]
                 sum == TotalReads(adc[ch], 10)
             IN  /\ Len(adc[ch]) = 10
                 /\ \A i \in 1..10 : adc[ch][i] \in 0..4095
                 /\ raw * 10 <= sum /\ sum < (raw + 1) * 10

\* code 4095 has been converted to 3.3 V, and the sampler has stored a mean
\* that truncation rounded down (3 reads of 4095 and 7 of 0 give 1228)
C6_Witness ==
    /\ fnOp = "adcKeVoltage"
    /\ fnX = 4095
    /\ fnRes = (33 * VOLT_UNIT) \div 10
    /\ display.shown
    /\ rawPH * 10 < TotalReads(adc[1], 10)


\* ------------------------------------------------------------------------
\* C7.  A sampling tick whose probe read is the disconnection sentinel stores
\* the default 0.0 in nilaiSuhu and completes: the pH and the turbidity of
\* the tick's reads are stored, the table is printed, the reporter block
\* follows.  So neither nilaiSuhu, nor the table, nor any request ever shows
\* the sentinel.
\* ------------------------------------------------------------------------
SentinelTick ==
    /\ lastSensorRead' # lastSensorRead
    /\ ds18b20' = DEVICE_DISCONNECTED_C

TickCompleted ==
    /\ nilaiSuhu' = 0
    /\ rawPH' = bacaADCRataRata(adc'[1])
    /\ nilaiPH' = konversiKePH(adcKeVoltage(rawPH'))
    /\ rawTurbidity' = bacaADCRataRata(adc'[2])
    /\ nilaiTurbidity' = konversiKeNTU(adcKeVoltage(rawTurbidity'))
    /\ display'.shown
    /\ display'.nilaiPH = StringFloat(nilaiPH', PH_UNIT, 100)
    /\ display'.nilaiTurbidity = StringFloat(nilaiTurbidity', NTU_UNIT, 10)
    /\ display'.nilaiSuhu = 0
    /\ pc' = "reporter"

NeverSentinel ==
    /\ nilaiSuhu # DEVICE_DISCONNECTED_C
    /\ display.shown => display.nilaiSuhu # -12700
    /\ lastRequest.sent => lastRequest.udara # -12700

C7_ProbeDisconnectedDefault ==
    /\ []NeverSentinel
    /\ [][SentinelTick => TickCompleted]_vars

\* a request has gone out after a tick that met a disconnected probe
C7_Witness ==
    /\ ds18b20 = DEVICE_DISCONNECTED_C
    /\ display.shown
    /\ nilaiSuhu = 0
    /\ lastRequest.sent
    /\ lastRequest.udara = 0

\* ------------------------------------------------------------------------
\* C8.  A failed send is not retried or queued.  A step of the reporter block
\* issues at most one request, and none when its timer is not due or the
\* network is not connected; whatever the outcome (not connected, transport
\* failure, non-success code, success) it sets the send timer to the captured
\* time when the timer was due, and leaves the readings, the table and the
\* sample timer alone; a request carries the readings of that moment.  No
\* other step issues a request or touches the send timer.
\* ------------------------------------------------------------------------
SendOutcomes == {"WiFi terputus", "Gagal", "HTTP Code", "Berhasil"}

ReporterStep ==
    /\ UNCHANGED <<readings, display, lastSensorRead>>
    /\ IF TimerDue(currentMillis, lastDataSend, DATA_SEND_INTERVAL)
       THEN /\ lastDataSend' = currentMillis
            /\ serialLog' \in SendOutcomes
            /\ httpGets' = IF serialLog' = "WiFi terputus" THEN 0 ELSE 1
            /\ IF httpGets' = 0
               THEN lastRequest' = lastRequest
               ELSE /\ lastRequest'.at = currentMillis
                    /\ lastRequest' =
                          QueryString(nilaiPH, nilaiTurbidity, nilaiSuhu)
       ELSE UNCHANGED <<lastDataSend, lastRequest, httpGets, serialLog>>

C8_NoRetryNoQueue ==
    [][IF pc = "reporter" THEN ReporterStep
       ELSE UNCHANGED <<lastDataSend, lastRequest, httpGets, serialLog>>]_vars

\* the one request of an expiry has failed in transport: the send timer
\* stands at the captured time all the same
C8_Witness ==
    /\ serialLog = "Gagal"
    /\ httpGets = 1
    /\ lastDataSend = currentMillis
    /\ lastRequest.at = currentMillis
    /\ pc = "millis"

\* ------------------------------------------------------------------------
\* C9.  Whatever the probe and the network do, setup() ends and loop() keeps
\* running: each of its blocks is reached again and again, a sample timer
\* that has expired is followed by a sampling tick, and a send timer that has
\* expired is followed by a run of the reporter.
\* ------------------------------------------------------------------------
C9_NeverHalts ==
    /\ <>(pc = "millis")
    /\ []<>(pc = "sampler")
    /\ []<>(pc = "reporter")
    /\ TimerDue(now, lastSensorRead, SENSOR_READ_INTERVAL)
          ~> (lastSensorRead = now /\ display.shown)
    /\ TimerDue(now, lastDataSend, DATA_SEND_INTERVAL)
          ~> (lastDataSend = now /\ serialLog \in SendOutcomes)

\* the join has run out of polls, the probe is disconnected and the network
\* is down, and both blocks have run at the current time
C9_Witness ==
    /\ wifiTimeout = WIFI_TIMEOUT_MAX
    /\ ds18b20 = DEVICE_DISCONNECTED_C
    /\ serialLog = "WiFi terputus"
    /\ lastSensorRead = now
    /\ lastDataSend = now
    /\ pc = "millis"

\* ------------------------------------------------------------------------
\* C10.  A request encodes the values the most recent sampling tick stored
\* and printed: when the reporter block runs, the sampler block of the same
\* iteration has run already (its timer is not left expired), and no request
\* goes out before the first sampling tick.
\* ------------------------------------------------------------------------
RequestIsLatestSample ==
    lastRequest' # lastRequest =>
       /\ display'.shown
       /\ lastRequest' = QueryString(nilaiPH', nilaiTurbidity', nilaiSuhu')
       /\ lastRequest'.kualitas_air = display'.nilaiPH
       /\ lastRequest'.tahan = display'.nilaiTurbidity
       /\ lastRequest'.udara = display'.nilaiSuhu

SamplerBeforeReporter ==
    /\ pc = "reporter" =>
          ~TimerDue(currentMillis, lastSensorRead, SENSOR_READ_INTERVAL)
    /\ lastRequest.sent => display.shown

C10_RequestCarriesLatestSample ==
    /\ []SamplerBeforeReporter
    /\ [][RequestIsLatestSample]_vars

\* both timers were due in one iteration: the tick and the request bear the
\* same captured time, and the request shows the tick's full-scale pH
C10_Witness ==
    /\ lastRequest.sent
    /\ lastRequest.at = lastSensorRead
    /\ rawPH = ADC_RESOLUTION
    /\ lastRequest.kualitas_air = 1400

\* ------------------------------------------------------------------------
\* Timer periods, in time that does not wrap.  `elapsed` counts the
\* milliseconds since the run was taken up and never wraps; sampleAt and
\* sendAt keep its value at the last tick and the last send attempt.
\* ------------------------------------------------------------------------
\* milliseconds from the last sampling tick to the captured time; before the
\* first tick the timer holds 0, the time of power-on
SinceSample ==
    IF sampleAt = NoTick THEN currentMillis[2] ELSE elapsed - sampleAt

\* milliseconds from the last send attempt to the captured time
SinceSend ==
    IF sendAt = NoTick THEN currentMillis[2] ELSE elapsed - sendAt

\* the unsigned differences loop() computes are the true elapsed times,
\* whether or not the clock has wrapped in between
ElapsedModulo ==
    pc \in {"sampler", "reporter"} =>
       /\ U32Sub(currentMillis, lastSensorRead) = U32(SinceSample)
       /\ U32Sub(currentMillis, lastDataSend) = U32(SinceSend)

\* the sampler block runs exactly when 1000 ms have elapsed, resets its timer
\* to the captured time and leaves the send timer alone
SamplerPeriod ==
    pc = "sampler" =>
       /\ IF SinceSample >= SENSOR_READ_INTERVAL
          THEN /\ lastSensorRead' = currentMillis
               /\ sampleAt' = elapsed
               /\ display'.shown
               /\ adc' \in {<<in[1], in[2]>> : in \in TickInputs}
          ELSE UNCHANGED <<lastSensorRead, sampleAt, sensors, readings, display>>
       /\ UNCHANGED <<lastDataSend, sendAt, currentMillis>>

\* the reporter block runs exactly when 5000 ms have elapsed, resets its
\* timer to the captured time and leaves the sample timer alone
ReporterPeriod ==
    pc = "reporter" =>
       /\ IF SinceSend >= DATA_SEND_INTERVAL
          THEN /\ lastDataSend' = currentMillis
               /\ sendAt' = elapsed
               /\ serialLog' \in {"WiFi terputus", "Berhasil", "HTTP Code", "Gagal"}
          ELSE UNCHANGED <<lastDataSend, sendAt, http, serialLog>>
       /\ UNCHANGED <<lastSensorRead, sampleAt, currentMillis>>

\* nothing else writes a timer
TimersOwned ==
    pc \notin {"sampler", "reporter"} => UNCHANGED <<timers, history>>

\* consecutive ticks and consecutive send attempts are a full period apart
PeriodsApart ==
    /\ (sampleAt # NoTick /\ sampleAt' # sampleAt) =>
          sampleAt' - sampleAt >= SENSOR_READ_INTERVAL
    /\ (sendAt # NoTick /\ sendAt' # sendAt) =>
          sendAt' - sendAt >= DATA_SEND_INTERVAL

\* C11.  The timers have fixed periods: in every loop() iteration the
\* sampler block runs exactly when at least 1000 ms lie between its last run
\* and the captured time, the reporter block exactly when at least 5000 ms
\* do; each resets its own timer to the captured time and no other step
\* writes it; consecutive ticks are at least 1000 ms apart and consecutive
\* send attempts at least 5000 ms apart, also when millis() has wrapped
\* around to 0 in between, the differences being taken modulo 2^32.
C11_FixedPeriodsAcrossWrap ==
    /\ []ElapsedModulo
    /\ [][SamplerPeriod /\ ReporterPeriod /\ TimersOwned /\ PeriodsApart]_vars

\* millis() has wrapped: the send attempt 5000 ms after the one at WrapStart
\* has run at a captured time past 0, in an iteration whose tick ran as well
C11_Witness ==
    /\ sendAt = DATA_SEND_INTERVAL
    /\ lastDataSend = U32Add(WrapStart, DATA_SEND_INTERVAL)
    /\ lastDataSend[1] = 0
    /\ sampleAt = sendAt
    /\ lastSensorRead = lastDataSend

====
